---- MODULE Spec2Model ----
(***************************************************************************)
(* Model of the prerequisite pipeline of 5CollegeGraph/FiveCollegeScraper  *)
(* (get_prereqs, test_prereqs, make_course_graph, make_subgraph,           *)
(* get_sugiyama_layout, make_json and the per-institution main loop).      *)
(*                                                                         *)
(* Python strings are modelled as sequences of one-character strings, so   *)
(* that split, upper, slicing and str() are computed character by          *)
(* character.  "nl" stands for the newline character and "nbsp" for the    *)
(* non-breaking space u'\xa0'.  igraph vertex ids are 0-based, as in the   *)
(* library: vertex v of a graph g has name g.names[v + 1].                 *)
(*                                                                         *)
(* The second specification, ScraperSpec, models the courseDetails and     *)
(* prereqs cells of NetworkViz/PrereqsHierarchy/coursescraper.py, a script *)
(* of its own with module-level names of its own.                          *)
(***************************************************************************)
EXTENDS Integers, Sequences, FiniteSets, TLC

VARIABLES
    INST,          \* the CourseRecord store of the institution (ordered dict)
    DEPTS,         \* departments still to be exported by the main loop
    PREREQS,       \* the edge list returned by get_prereqs
    COURSE_GRAPH,  \* the igraph object returned by make_course_graph
    data,          \* the document returned by the last make_json
    files,         \* the data.json files written so far: (department, document)
    dept,          \* the dept_string of the last make_json
    counter,       \* the count printed by test_prereqs
    seed,          \* which stream the process-global random generator yields
    draws,         \* how many randint calls were made so far
    pc,            \* position of the main script
    err,           \* the exception that ended the script, or "none"
    \* module-level names of coursescraper.py
    courseURLs,        \* long-form department name -> list of course urls
    uniqueRecentURLs,  \* the urls of the most recent iteration of each course
    pages,             \* what the site serves: url -> paragraph texts
    courseDetails,     \* course code -> {url, depts, rLine}
    depts_global,      \* the name depts, as the loop of courseDetails leaves it
    prereqs,           \* course code -> list of required course codes
    fetched,           \* passes made by the loop over uniqueRecentURLs
    scanned,           \* keys the loop over courseDetails has passed
    cell               \* the cell of coursescraper.py that is running

\* the names of FiveCollegeScraper.py
pipelineVars ==
    <<INST, DEPTS, PREREQS, COURSE_GRAPH, data, files, dept, counter, seed, draws,
      pc, err>>

\* the names of coursescraper.py
scraperVars ==
    <<courseURLs, uniqueRecentURLs, pages, courseDetails, depts_global, prereqs,
      fetched, scanned, cell>>

vars ==
    <<INST, DEPTS, PREREQS, COURSE_GRAPH, data, files, dept, counter, seed, draws,
      pc, err, courseURLs, uniqueRecentURLs, pages, courseDetails, depts_global,
      prereqs, fetched, scanned, cell>>

-----------------------------------------------------------------------------
(* Bounds of the model *)

\* largest number of CourseRecords in a store
MaxCourses ==
    2

-----------------------------------------------------------------------------
(* Python string primitives *)

LowerLetters ==
    <<"a", "b", "c", "d", "e", "f", "g", "h", "i", "j", "k", "l", "m",
      "n", "o", "p", "q", "r", "s", "t", "u", "v", "w", "x", "y", "z">>

UpperLetters ==
    <<"A", "B", "C", "D", "E", "F", "G", "H", "I", "J", "K", "L", "M",
      "N", "O", "P", "Q", "R", "S", "T", "U", "V", "W", "X", "Y", "Z">>

Digits ==
    <<"0", "1", "2", "3", "4", "5", "6", "7", "8", "9">>

\* the elements of a sequence
Range(s) ==
    {s[i] : i \in DOMAIN s}

\* x in list
In(x, list) ==
    \E i \in DOMAIN list : list[i] = x

\* str.upper() on one character
UpperChar(c) ==
    IF \E i \in DOMAIN LowerLetters : LowerLetters[i] = c
    THEN UpperLetters[CHOOSE i \in DOMAIN LowerLetters : LowerLetters[i] = c]
    ELSE c

\* str.lower() on one character
LowerChar(c) ==
    IF \E i \in DOMAIN UpperLetters : UpperLetters[i] = c
    THEN LowerLetters[CHOOSE i \in DOMAIN UpperLetters : UpperLetters[i] = c]
    ELSE c

\* str.upper()
Upper(s) ==
    [i \in DOMAIN s |-> UpperChar(s[i])]

\* str.lower()
Lower(s) ==
    [i \in DOMAIN s |-> LowerChar(s[i])]

\* str.isnumeric() of a one-character string
IsNumericChar(c) ==
    In(c, Digits)

\* str.replace(old, new) for a one-character old
Replace(s, old, new) ==
    [i \in DOMAIN s |-> IF s[i] = old THEN new ELSE s[i]]

RECURSIVE SplitAcc(_, _, _, _)
SplitAcc(seps, s, cur, acc) ==
    IF s = <<>> THEN Append(acc, cur)
    ELSE IF Head(s) \in seps
         THEN SplitAcc(seps, Tail(s), <<>>, Append(acc, cur))
         ELSE SplitAcc(seps, Tail(s), Append(cur, Head(s)), acc)

\* re.split on an alternation of single characters, and str.split(sep):
\* n separators give n + 1 fields, empty fields included
Split(seps, s) ==
    SplitAcc(seps, s, <<>>, <<>>)

RECURSIVE StrNat(_)
\* str(n) of a natural number
StrNat(n) ==
    IF n < 10 THEN <<Digits[n + 1]>>
    ELSE StrNat(n \div 10) \o <<Digits[(n % 10) + 1]>>

\* str((i, name)) of an (int, str) tuple: "(0, 'ECON-101')"
StrIndexName(i, name) ==
    <<"(">> \o StrNat(i) \o <<",", " ", "'">> \o name \o <<"'", ")">>

\* 'rgb' + str((r, g, b))
RgbString(color) ==
    <<"r", "g", "b", "(">> \o StrNat(color[1]) \o <<",", " ">> \o
    StrNat(color[2]) \o <<",", " ">> \o StrNat(color[3]) \o <<")">>

-----------------------------------------------------------------------------
(* The inputs: course codes and description texts *)

Code_ECON_101 ==
    <<"E", "C", "O", "N", "-", "1", "0", "1">>

Code_ECON_301 ==
    <<"E", "C", "O", "N", "-", "3", "0", "1">>

Code_MATH_211 ==
    <<"M", "A", "T", "H", "-", "2", "1", "1">>

Code_CS_201 ==
    <<"C", "S", "-", "2", "0", "1">>

Code_MATH_999 ==
    <<"M", "A", "T", "H", "-", "9", "9", "9">>

\* a code without the department/number separator
Code_NoSeparator ==
    <<"E", "C", "O", "N", "3", "0", "1">>

\* the codes a store may hold, in the order the store lists them
CodeList ==
    <<Code_ECON_101, Code_ECON_301, Code_MATH_211, Code_CS_201,
      Code_MATH_999, Code_NoSeparator>>

Desc_Empty ==
    <<>>

\* "Requisite: MATH 211 and ECON 301."
Desc_CrossDept ==
    <<"R", "e", "q", "u", "i", "s", "i", "t", "e", ":", " ", "M", "A", "T",
      "H", " ", "2", "1", "1", " ", "a", "n", "d", " ", "E", "C", "O", "N",
      " ", "3", "0", "1", ".">>

\* "Requisite: ECON 101 or 201, or consent of instructor."
Desc_SameDept ==
    <<"R", "e", "q", "u", "i", "s", "i", "t", "e", ":", " ", "E", "C", "O",
      "N", " ", "1", "0", "1", " ", "o", "r", " ", "2", "0", "1", ",", " ",
      "o", "r", " ", "c", "o", "n", "s", "e", "n", "t", " ", "o", "f", " ",
      "i", "n", "s", "t", "r", "u", "c", "t", "o", "r", ".">>

\* "Requisite:\xa0ECON 999 and ECON 999 lab."
Desc_Unlisted ==
    <<"R", "e", "q", "u", "i", "s", "i", "t", "e", ":", "nbsp", "E", "C",
      "O", "N", " ", "9", "9", "9", " ", "a", "n", "d", " ", "E", "C", "O",
      "N", " ", "9", "9", "9", " ", "l", "a", "b", ".">>

\* "Meets MWF.\nSee math 211."
Desc_NoRequisite ==
    <<"M", "e", "e", "t", "s", " ", "M", "W", "F", ".", "nl", "S", "e", "e",
      " ", "m", "a", "t", "h", " ", "2", "1", "1", ".">>

Descriptions ==
    {Desc_Empty, Desc_CrossDept, Desc_SameDept, Desc_Unlisted, Desc_NoRequisite}

-----------------------------------------------------------------------------
(* The CourseRecord store: an ordered dict, code -> details *)

RECURSIVE Flatten(_)
\* itertools.chain(*lists), and repeated +=
Flatten(lists) ==
    IF lists = <<>> THEN <<>> ELSE Head(lists) \o Flatten(Tail(lists))

\* s contains sub as a substring (Python's  sub in s)
Contains(s, sub) ==
    \E o \in 0..(Len(s) - Len(sub)) : SubSeq(s, o + 1, o + Len(sub)) = sub

\* catalog_dict.keys(), in the order of the dict
Keys(catalog_dict) ==
    [i \in DOMAIN catalog_dict |-> catalog_dict[i].code]

\* catalog_dict[k]
Details(catalog_dict, k) ==
    catalog_dict[CHOOSE i \in DOMAIN catalog_dict : catalog_dict[i].code = k]

\* get_course_description: the "prereqs" detail keeps every element s of the
\* description for which  'requisite' or 'or consent of professor' in s  is
\* truthy; a non-empty string literal is truthy, so every character is kept
PrereqsDetail(tmp) ==
    SelectSeq(tmp, LAMBDA s : Len(<<"r", "e", "q", "u", "i", "s", "i", "t", "e">>) > 0
                              \/ Contains(<<s>>, <<"o", "r", " ", "c", "o", "n", "s", "e", "n", "t">>))

\* the record the scraper stores for a course
CourseRecord(code, description) ==
    [code |-> code,
     title |-> <<"T", ":">> \o code,
     url |-> <<"h", "t", "t", "p", ":", "/", "/">> \o code,
     description |-> description,
     prereqs |-> PrereqsDetail(description)]

RECURSIVE SortedSeq(_)
\* the elements of a set of numbers, ascending
SortedSeq(S) ==
    IF S = {} THEN <<>>
    ELSE LET m == CHOOSE x \in S : \A y \in S : x <= y
         IN <<m>> \o SortedSeq(S \ {m})

\* the store holding the codes CodeList[i], i in S, with descriptions d[i]
StoreOf(S, d) ==
    LET idx == SortedSeq(S)
    IN [j \in DOMAIN idx |-> CourseRecord(CodeList[idx[j]], d[idx[j]])]

-----------------------------------------------------------------------------
(* get_prereqs *)

\* the characters re.split(' |-|,|/|;|\.', req_line) splits at
WordSeparators ==
    {" ", "-", ",", "/", ";", "."}

\* the characters re.split('\n|\.', desc) splits at
SentenceSeparators ==
    {"nl", "."}

\* depts = [i.split('-')[0].upper() for i in catalog_dict.keys()]
DeptsOf(catalog_dict) ==
    [i \in DOMAIN catalog_dict |-> Upper(Split({"-"}, catalog_dict[i].code)[1])]

\* the outcome of an indexing that raises IndexError
IndexError ==
    <<"IndexError">>

\* a faulty variant of NumberField: i.split('-')[-1], which never raises
NumberField_LastField(i) ==
    LET fields == Split({"-"}, i)
    IN fields[Len(fields)]

\* i.split('-')[1]: IndexError when the key has no second field
NumberField(i) ==
    LET fields == Split({"-"}, i)
    IN IF Len(fields) < 2 THEN IndexError ELSE fields[2]

\* building nums evaluates i.split('-')[1][0] for every key: IndexError when
\* the key has no second field, or an empty one
GetPrereqsRaises(catalog_dict) ==
    \E i \in DOMAIN catalog_dict :
        \/ NumberField(catalog_dict[i].code) = IndexError
        \/ Len(NumberField(catalog_dict[i].code)) = 0

\* nums = [i.split('-')[1].upper() for i in keys if i.split('-')[1][0].isnumeric()]
NumsOf(catalog_dict) ==
    LET numbered == SelectSeq(Keys(catalog_dict),
                              LAMBDA i : IsNumericChar(NumberField(i)[1]))
    IN [j \in DOMAIN numbered |-> Upper(NumberField(numbered[j]))]

\* if 'requisite' or 'or consent of professor' in i.lower():
\* the left operand of  or  is a non-empty string, which is truthy
IsRequisiteSentence(i) ==
    \/ Len(<<"r", "e", "q", "u", "i", "s", "i", "t", "e">>) > 0
    \/ Contains(Lower(i), <<"o", "r", " ", "c", "o", "n", "s", "e", "n", "t", " ",
                            "o", "f", " ", "p", "r", "o", "f", "e", "s", "s", "o", "r">>)

\* req_line: every qualifying sentence followed by a space
ReqLine(desc) ==
    LET sentences == Split(SentenceSeparators, Replace(desc, "nbsp", " "))
        kept == SelectSeq(sentences, IsRequisiteSentence)
    IN Flatten([j \in DOMAIN kept |-> kept[j] \o <<" ">>])

\* a faulty variant of NextDept: the cursor never leaves the own department
NextDept_NoSwitch(word, current_dept, depts) ==
    current_dept

\* if word.upper() in depts: current_dept = word
NextDept(word, current_dept, depts) ==
    IF In(Upper(word), depts) THEN word ELSE current_dept

\* a faulty variant of Emits: word.isnumeric(), whatever the store holds
Emits_AnyNumeric(word, nums) ==
    Len(word) > 0 /\ \A i \in DOMAIN word : IsNumericChar(word[i])

\* if word in nums:
Emits(word, nums) ==
    In(word, nums)

\* a faulty variant of EmittedEdge: the tuple's components exchanged
EmittedEdge_Swapped(current_dept, word, k) ==
    <<k, Upper(current_dept) \o <<"-">> \o word>>

\* (current_dept.upper() + '-' + word, k)
EmittedEdge(current_dept, word, k) ==
    <<Upper(current_dept) \o <<"-">> \o word, k>>

RECURSIVE ScanWords(_, _, _, _, _)
\* for word in words: ...
ScanWords(words, current_dept, k, depts, nums) ==
    IF words = <<>> THEN <<>>
    ELSE LET word == Head(words)
             d == NextDept(word, current_dept, depts)
         IN (IF Emits(word, nums) THEN <<EmittedEdge(d, word, k)>> ELSE <<>>)
            \o ScanWords(Tail(words), d, k, depts, nums)

\* words = re.split(' |-|,|/|;|\.', req_line)
WordsOf(desc) ==
    Split(WordSeparators, ReqLine(desc))

\* the body of  for k in catalog_dict.keys()
CoursePrereqs(k, desc, depts, nums) ==
    IF Len(desc) > 0
    THEN ScanWords(WordsOf(desc), Split({"-"}, k)[1], k, depts, nums)
    ELSE <<>>

\* get_prereqs(catalog_dict), when it does not raise
get_prereqs(catalog_dict) ==
    LET depts == DeptsOf(catalog_dict)
        nums == NumsOf(catalog_dict)
    IN Flatten([i \in DOMAIN catalog_dict |->
                   CoursePrereqs(catalog_dict[i].code,
                                 catalog_dict[i].description, depts, nums)])

-----------------------------------------------------------------------------
(* test_prereqs *)

\* the number test_prereqs prints: the courses that are no endpoint of any
\* edge although their "prereqs" detail is not empty
test_prereqs(prereqs_edgelist, course_details) ==
    Cardinality({i \in DOMAIN course_details :
                    /\ ~In(course_details[i].code, Flatten(prereqs_edgelist))
                    /\ Len(course_details[i].prereqs) > 0})

-----------------------------------------------------------------------------
(* make_course_graph *)

\* igraph resolves a vertex name to the first vertex carrying that name
VertexByName(names, name) ==
    (CHOOSE i \in DOMAIN names :
        names[i] = name /\ \A j \in DOMAIN names : names[j] = name => i <= j) - 1

\* extra_courses = [c for c in all_courses if c not in course_details.keys()]
ExtraCourses(course_details, prereqs_edgelist) ==
    SelectSeq(Flatten(prereqs_edgelist), LAMBDA c : ~In(c, Keys(course_details)))

RECURSIVE WithoutRepeats(_)
\* a list without the later occurrences of its elements
WithoutRepeats(list) ==
    IF list = <<>> THEN <<>>
    ELSE LET front == WithoutRepeats(SubSeq(list, 1, Len(list) - 1))
             last == list[Len(list)]
         IN IF In(last, front) THEN front ELSE Append(front, last)

\* a faulty variant of make_course_graph: add_edges(set(prereqs_edgelist)),
\* which merges repeated pairs
make_course_graph_MergedEdges(course_details, prereqs_edgelist) ==
    LET extra_courses == SelectSeq(Flatten(prereqs_edgelist),
                                   LAMBDA c : ~In(c, Keys(course_details)))
        names_of_courses == Keys(course_details) \o extra_courses
        merged == WithoutRepeats(prereqs_edgelist)
    IN [vcount |-> Len(names_of_courses),
        names |-> names_of_courses,
        edges |-> [e \in DOMAIN merged |->
                      <<(CHOOSE i \in DOMAIN names_of_courses :
                            /\ names_of_courses[i] = merged[e][1]
                            /\ \A j \in 1..(i - 1) :
                                  names_of_courses[j] # merged[e][1]) - 1,
                        (CHOOSE i \in DOMAIN names_of_courses :
                            /\ names_of_courses[i] = merged[e][2]
                            /\ \A j \in 1..(i - 1) :
                                  names_of_courses[j] # merged[e][2]) - 1>>]]

\* Graph(number_of_courses, directed = True); vs["name"] = names_of_courses;
\* add_edges(prereqs_edgelist)
make_course_graph(course_details, prereqs_edgelist) ==
    LET extra_courses == ExtraCourses(course_details, prereqs_edgelist)
        number_of_courses == Len(extra_courses) + Len(course_details)
        names_of_courses == Keys(course_details) \o extra_courses
    IN [vcount |-> number_of_courses,
        names |-> names_of_courses,
        edges |-> [e \in DOMAIN prereqs_edgelist |->
                      <<VertexByName(names_of_courses, prereqs_edgelist[e][1]),
                        VertexByName(names_of_courses, prereqs_edgelist[e][2])>>]]

\* the graph before make_course_graph ran
NoGraph ==
    [vcount |-> 0, names |-> <<>>, edges |-> <<>>]

-----------------------------------------------------------------------------
(* make_subgraph *)

\* the vertices of graph, 0-based
Vertices(graph) ==
    0..(graph.vcount - 1)

\* graph.vs["name"][v]
NameOf(graph, v) ==
    graph.names[v + 1]

\* name.split('-')[0]
DeptPrefix(name) ==
    Split({"-"}, name)[1]

\* a faulty variant of Neighborhood: mode "out", successors only
Neighborhood_OutOnly(graph, v) ==
    {v} \cup {u \in Vertices(graph) :
                 \E e \in DOMAIN graph.edges : graph.edges[e] = <<v, u>>}

\* Graph.neighborhood(v): order 1, mode "all": v and every vertex joined to
\* it by an edge in either direction
Neighborhood(graph, v) ==
    {v} \cup {u \in Vertices(graph) :
                 \E e \in DOMAIN graph.edges :
                     graph.edges[e] = <<v, u>> \/ graph.edges[e] = <<u, v>>}

\* Graph.induced_subgraph(vertices): the vertices keep their relative order
\* and are renumbered from 0; the edges between them keep their order
InducedSubgraph(graph, vertices) ==
    LET kept == SortedSeq(vertices)
        newId(v) == (CHOOSE j \in DOMAIN kept : kept[j] = v) - 1
        keptEdges == SelectSeq(graph.edges,
                               LAMBDA e : e[1] \in vertices /\ e[2] \in vertices)
    IN [vcount |-> Len(kept),
        names |-> [j \in DOMAIN kept |-> NameOf(graph, kept[j])],
        edges |-> [e \in DOMAIN keptEdges |->
                      <<newId(keptEdges[e][1]), newId(keptEdges[e][2])>>]]

\* relevant_courses, as passed to induced_subgraph: the vertices of the
\* department and the members of their neighborhoods
RelevantCourses(dept_string, course_graph) ==
    LET own == {v \in Vertices(course_graph) :
                   DeptPrefix(NameOf(course_graph, v)) = dept_string}
    IN UNION {Neighborhood(course_graph, v) : v \in own}

\* make_subgraph(dept_string, prereqs_edgelist, course_graph); the second
\* argument is not used by the function
make_subgraph(dept_string, course_graph) ==
    InducedSubgraph(course_graph, RelevantCourses(dept_string, course_graph))

-----------------------------------------------------------------------------
(* get_sugiyama_layout *)

\* Graph.layout_sugiyama: one row per vertex, followed by rows for the dummy
\* vertices the layering inserts on edges.  The library's coordinates are
\* abstracted: x is the vertex's rank, y the number of edges entering it.
layout_sugiyama(subgraph) ==
    [r \in 1..(subgraph.vcount + Len(subgraph.edges)) |->
        IF r <= subgraph.vcount
        THEN <<r - 1, Cardinality({e \in DOMAIN subgraph.edges :
                                      subgraph.edges[e][2] = r - 1})>>
        ELSE <<r - 1, 0>>]

\* sugiyama_layout[0:subgraph.vcount()]
get_sugiyama_layout(subgraph) ==
    SubSeq(layout_sugiyama(subgraph), 1, subgraph.vcount)

-----------------------------------------------------------------------------
(* make_color, get_rgb *)

\* The streams the process-global generator of  random  may yield, by seed:
\* stream 0 repeats one value, stream 1 never repeats within 256 draws
Seeds ==
    {0, 1}

\* randint(0, 255), the n-th draw (n = 0, 1, ...) of stream s
make_color(s, n) ==
    (17 + s * 41 * (n + 1)) % 256

\* (make_color(), make_color(), make_color()), starting at draw n
get_rgb(s, n) ==
    <<make_color(s, n), make_color(s, n + 1), make_color(s, n + 2)>>

-----------------------------------------------------------------------------
(* make_json *)

\* department_colors = {dept: get_rgb() for dept in unique_departments}:
\* get_rgb is called once per element of the list, and a later element with
\* the same department replaces the color of an earlier one
DepartmentColor(names, d, s, n) ==
    LET last == CHOOSE j \in DOMAIN names :
                    /\ DeptPrefix(names[j]) = d
                    /\ \A i \in DOMAIN names : DeptPrefix(names[i]) = d => i <= j
    IN get_rgb(s, n + 3 * (last - 1))

\* the node_output of a course that is a key of course_details
KnownNode(i, name, layout, course_details, color) ==
    [label |-> <<i, name>>,
     x |-> layout[i + 1][1],
     y |-> layout[i + 1][2],
     id |-> StrIndexName(i, name),
     attributes |->
        [Title |-> Details(course_details, name).title,
         Description |-> Details(course_details, name).description,
         DepartmentCode |-> SubSeq(name, 1, IF Len(name) < 4 THEN Len(name) ELSE 4),
         CourseSite |-> <<"<", "a", " ", "h", "r", "e", "f", "=", " ", "'">> \o
                        Details(course_details, name).url \o
                        <<"'", ">", " ", "C", "o", "u", "r", "s", "e", " ",
                          "S", "i", "t", "e", " ", "<", "/", "a", ">">>,
         Requisite |-> Details(course_details, name).prereqs],
     color |-> RgbString(color),
     size |-> 10]

\* 'not offered in the last 4 semesters'
NotOffered ==
    <<"n", "o", "t", " ", "o", "f", "f", "e", "r", "e", "d", " ", "i", "n", " ",
      "t", "h", "e", " ", "l", "a", "s", "t", " ", "4", " ", "s", "e", "m", "e",
      "s", "t", "e", "r", "s">>

\* a faulty variant of PhantomNode: the position is not matched to the
\* node's index, sugiyama_layout[0] is used for every such node
PhantomNode_FirstPosition(i, name, layout, color) ==
    [label |-> <<i, name>>,
     x |-> layout[1][1],
     y |-> layout[1][2],
     id |-> StrIndexName(i, name),
     attributes |->
        [Title |-> <<i, name>>,
         Description |-> NotOffered,
         DepartmentCode |-> DeptPrefix(name),
         CourseSite |-> <<>>,
         Requisite |-> <<>>],
     color |-> RgbString(color),
     size |-> 10]

\* the node_output of a course with no retrieved details
PhantomNode(i, name, layout, color) ==
    [label |-> <<i, name>>,
     x |-> layout[i + 1][1],
     y |-> layout[i + 1][2],
     id |-> StrIndexName(i, name),
     attributes |->
        [Title |-> <<i, name>>,
         Description |-> NotOffered,
         DepartmentCode |-> DeptPrefix(name),
         CourseSite |-> <<>>,
         Requisite |-> <<>>],
     color |-> RgbString(color),
     size |-> 10]

\* a faulty variant of EdgeColorVertex: edge[1][0], the source
EdgeColorVertex_Source(edge) ==
    edge[1]

\* the vertex whose department colors an edge: edge[1][1], the target
EdgeColorVertex(edge) ==
    edge[2]

\* the edge_output of the edge at position idx (0-based) of the edge list;
\* node_output is the dict of the last node the node loop built
EdgeOutput(idx, edge, node_output, color) ==
    [label |-> <<>>,
     source |-> StrNat(edge[1]),
     target |-> StrNat(edge[2]),
     id |-> StrNat(Cardinality(DOMAIN node_output) - 1 + 2 * idx),
     attributes |-> <<>>,
     color |-> RgbString(color),
     size |-> 1]

\* make_json(dept_string, course_details, complete_course_graph), with the
\* generator in stream s after n draws
make_json(dept_string, course_details, complete_course_graph, s, n) ==
    LET subgraph == make_subgraph(dept_string, complete_course_graph)
        sugiyama_layout == get_sugiyama_layout(subgraph)
        colorOf(name) == DepartmentColor(subgraph.names, DeptPrefix(name), s, n)
        nodes == [j \in DOMAIN subgraph.names |->
                    IF In(subgraph.names[j], Keys(course_details))
                    THEN KnownNode(j - 1, subgraph.names[j], sugiyama_layout,
                                   course_details, colorOf(subgraph.names[j]))
                    ELSE PhantomNode(j - 1, subgraph.names[j], sugiyama_layout,
                                     colorOf(subgraph.names[j]))]
        edges == [e \in DOMAIN subgraph.edges |->
                    EdgeOutput(e - 1, subgraph.edges[e], nodes[Len(nodes)],
                               colorOf(NameOf(subgraph,
                                              EdgeColorVertex(subgraph.edges[e]))))]
    IN [edges |-> edges, nodes |-> nodes]

\* the value of  data  before any make_json ran
NoData ==
    [edges |-> <<>>, nodes |-> <<>>]

-----------------------------------------------------------------------------
(* The main script, for one institution *)

\* coursescraper.py is not imported by FiveCollegeScraper.py: none of its
\* names exists while the pipeline runs
ScraperNotRun ==
    /\ courseURLs = <<>>
    /\ uniqueRecentURLs = <<>>
    /\ pages = <<>>
    /\ courseDetails = <<>>
    /\ depts_global = {}
    /\ prereqs = <<>>
    /\ fetched = 0
    /\ scanned = {}
    /\ cell = "not run"

Init ==
    /\ ScraperNotRun
    /\ \E S \in SUBSET (DOMAIN CodeList) :
          /\ Cardinality(S) \in 1..MaxCourses
          /\ \E d \in [S -> Descriptions] : INST = StoreOf(S, d)
    /\ DEPTS = {}
    /\ PREREQS = <<>>
    /\ COURSE_GRAPH = NoGraph
    /\ data = NoData
    /\ files = {}
    /\ dept = <<>>
    /\ counter = 0
    /\ seed \in Seeds
    /\ draws = 0
    /\ pc = "get_prereqs"
    /\ err = "none"

\* DEPTS = list(set([k.split('-')[0] for k in INST[i].keys()]))
\* PREREQS = get_prereqs(INST[i])
GetPrereqs ==
    /\ pc = "get_prereqs"
    /\ DEPTS' = {DeptPrefix(INST[i].code) : i \in DOMAIN INST}
    /\ IF GetPrereqsRaises(INST)
       THEN /\ pc' = "raised"
            /\ err' = "IndexError"
            /\ UNCHANGED PREREQS
       ELSE /\ pc' = "test_prereqs"
            /\ PREREQS' = get_prereqs(INST)
            /\ UNCHANGED err
    /\ UNCHANGED <<INST, COURSE_GRAPH, data, files, dept, counter, seed, draws>>
    /\ UNCHANGED scraperVars

\* test_prereqs(PREREQS, INST[i])
TestPrereqs ==
    /\ pc = "test_prereqs"
    /\ counter' = test_prereqs(PREREQS, INST)
    /\ pc' = "make_course_graph"
    /\ UNCHANGED <<INST, DEPTS, PREREQS, COURSE_GRAPH, data, files, dept, seed, draws,
                   err>>
    /\ UNCHANGED scraperVars

\* COURSE_GRAPH = make_course_graph(INST[i], PREREQS)
MakeCourseGraph ==
    /\ pc = "make_course_graph"
    /\ COURSE_GRAPH' = make_course_graph(INST, PREREQS)
    /\ pc' = "export"
    /\ UNCHANGED <<INST, DEPTS, PREREQS, data, files, dept, counter, seed, draws, err>>
    /\ UNCHANGED scraperVars

\* export_json: target_file = open(path, 'w'); target_file.write(json_file),
\* path being the data.json of the department: an earlier file of the same
\* department is replaced
WriteFile(written, dept_string, document) ==
    {f \in written : f[1] # dept_string} \cup {<<dept_string, document>>}

\* a faulty variant of ExportJson: make_subgraph deletes the other vertices
\* from course_graph itself instead of building an induced copy
ExportJson_PrunesGraph ==
    /\ pc = "export"
    /\ \E d \in DEPTS :
          /\ dept' = d
          /\ data' = make_json(d, INST, COURSE_GRAPH, seed, draws)
          /\ COURSE_GRAPH' = make_subgraph(d, COURSE_GRAPH)
          /\ draws' = draws + 3 * Len(data'.nodes)
          /\ files' = WriteFile(files, d, data')
          /\ DEPTS' = DEPTS \ {d}
          /\ pc' = IF DEPTS = {d} THEN "done" ELSE "export"
    /\ UNCHANGED <<INST, PREREQS, counter, seed, err>>
    /\ UNCHANGED scraperVars

\* one round of  for dept in DEPTS: export_json(i, dept, INST[i], COURSE_GRAPH)
\* the order of list(set(...)) is not fixed by the code
ExportJson ==
    /\ pc = "export"
    /\ \E d \in DEPTS :
          /\ dept' = d
          /\ data' = make_json(d, INST, COURSE_GRAPH, seed, draws)
          \* get_rgb ran once per element of unique_departments, one per node
          /\ draws' = draws + 3 * Len(data'.nodes)
          /\ files' = WriteFile(files, d, data')
          /\ DEPTS' = DEPTS \ {d}
          /\ pc' = IF DEPTS = {d} THEN "done" ELSE "export"
    /\ UNCHANGED <<INST, PREREQS, COURSE_GRAPH, counter, seed, err>>
    /\ UNCHANGED scraperVars

Next ==
    \/ GetPrereqs
    \/ TestPrereqs
    \/ MakeCourseGraph
    \/ ExportJson

Spec ==
    Init /\ [][Next]_vars

-----------------------------------------------------------------------------
(* coursescraper.py: what the site serves *)

\* 'www.amherst.edu' + x, x an href of a department catalog: the path of a
\* course page ends in /<department code>/<code>-<semester>
CoursePage(deptCode, code) ==
    <<"w", "w", "w", ".", "a", "m", "h", "e", "r", "s", "t", ".", "e", "d",
      "u", "/", "a", "c", "a", "d", "e", "m", "i", "c", "l", "i", "f", "e",
      "/", "d", "e", "p", "a", "r", "t", "m", "e", "n", "t", "s", "/", "c",
      "o", "u", "r", "s", "e", "s", "/", "1", "5", "1", "6", "S", "/">>
        \o deptCode \o <<"/">> \o code \o <<"-", "1", "5", "1", "6", "S">>

Url_ECON_301 ==
    CoursePage(<<"E", "C", "O", "N">>, Code_ECON_301)

Url_ECON_101 ==
    CoursePage(<<"E", "C", "O", "N">>, Code_ECON_101)

Url_MATH_211 ==
    CoursePage(<<"M", "A", "T", "H">>, Code_MATH_211)

\* url.split('/')[3] of the catalog url of a department: its long-form name
Name_economics ==
    <<"e", "c", "o", "n", "o", "m", "i", "c", "s">>

Name_mathematics ==
    <<"m", "a", "t", "h", "e", "m", "a", "t", "i", "c", "s">>

\* the dicts courseURLs the catalogs give: two departments, two departments
\* with a cross-listed course, one department
Catalogs ==
    { (Name_economics :> <<Url_ECON_301, Url_ECON_101>>)
          @@ (Name_mathematics :> <<Url_MATH_211>>),
      (Name_economics :> <<Url_ECON_301, Url_MATH_211>>)
          @@ (Name_mathematics :> <<Url_MATH_211>>),
      (Name_economics :> <<Url_ECON_301>>) }

\* "Meets MWF."
Text_Meets ==
    <<"M", "e", "e", "t", "s", " ", "M", "W", "F", ".">>

\* "Requisite: economics 111 or MATH-1011."
Text_LongName ==
    <<"R", "e", "q", "u", "i", "s", "i", "t", "e", ":", " ", "e", "c", "o",
      "n", "o", "m", "i", "c", "s", " ", "1", "1", "1", " ", "o", "r", " ",
      "M", "A", "T", "H", "-", "1", "0", "1", "1", ".">>

\* u"Requisite:\xa0ECON 101;102/12"
Text_Nbsp ==
    <<"R", "e", "q", "u", "i", "s", "i", "t", "e", ":", "nbsp", "E", "C",
      "O", "N", " ", "1", "0", "1", ";", "1", "0", "2", "/", "1", "2">>

\* the paragraphs tree.xpath(path) finds on a course page
PageList ==
    { <<>>,
      <<Text_Meets, Desc_CrossDept>>,
      <<Text_LongName>>,
      <<Text_Nbsp, Text_Meets>> }

\* uniqueCourseURLs: the urls of all the lists of courseURLs, each once
UniqueCourseURLs(course_urls) ==
    UNION {Range(course_urls[key]) : key \in DOMAIN course_urls}

\* list(set(...)): the lists with the elements of S, each once, in any order
Orderings(S) ==
    {o \in [1..Cardinality(S) -> S] : Range(o) = S}

-----------------------------------------------------------------------------
(* coursescraper.py: the courseDetails cell *)

\* reqline = [t for t in tree.xpath(path) if 'Requisite:' in t]
RequisiteLines(paragraphs) ==
    LET HasRequisite(t) ==
            Contains(t, <<"R", "e", "q", "u", "i", "s", "i", "t", "e", ":">>)
    IN SelectSeq(paragraphs, HasRequisite)

\* code = '-'.join(url.split('/')[::-1][0].split('-')[0:2])
CourseCode(course_url) ==
    LET segments == Split({"/"}, course_url)
        fields == Split({"-"}, segments[Len(segments)])
        kept == SubSeq(fields, 1, IF Len(fields) < 2 THEN Len(fields) ELSE 2)
    IN IF kept = <<>> THEN <<>>
       ELSE Flatten([j \in DOMAIN kept |->
                        IF j = 1 THEN kept[j] ELSE <<"-">> \o kept[j]])

\* depts = [key for key, value in courseURLs.items() if url in value]
ListingDepts(course_urls, course_url) ==
    {key \in DOMAIN course_urls : In(course_url, course_urls[key])}

\* {"url":url, "depts":depts, "rLine":reqline}
CourseDetail(course_urls, course_url, paragraphs) ==
    [url |-> course_url,
     depts |-> ListingDepts(course_urls, course_url),
     rLine |-> RequisiteLines(paragraphs)]

-----------------------------------------------------------------------------
(* coursescraper.py: the prereqs cell *)

\* the characters re.split(' |-|,|/|;|\.', rLine) splits at
RLineSeparators ==
    {" ", "-", ",", "/", ";", "."}

\* words = re.split(..., rLine.replace(u'\xa0', u' '))
RLineWords(rLine) ==
    Split(RLineSeparators, Replace(rLine, "nbsp", " "))

\* currentDept = courseDetails[k]["url"].split('/')[5]
UrlDept(course_url) ==
    Split({"/"}, course_url)[6]

\* word.isnumeric() and len(word) == 3
IsCourseNumber(word) ==
    /\ Len(word) = 3
    /\ \A j \in DOMAIN word : IsNumericChar(word[j])

RECURSIVE ScanRLine(_, _, _)
\* for word in words: the cursor moves at a word of depts, a three-digit
\* word appends currentDept + '-' + word
ScanRLine(words, currentDept, depts) ==
    IF words = <<>> THEN <<>>
    ELSE LET word == Head(words)
             dept_now == IF word \in depts THEN word ELSE currentDept
         IN (IF IsCourseNumber(word)
             THEN <<dept_now \o <<"-">> \o word>>
             ELSE <<>>) \o ScanRLine(Tail(words), dept_now, depts)

\* reqdCourses of one key of courseDetails; depts is read where the loop
\* runs, at module level
ReqdCourses(detail, depts) ==
    ScanRLine(RLineWords(detail.rLine[1]), UrlDept(detail.url), depts)

\* deptCodes: long-form department name -> the code in the path of the first
\* course url of the department
DeptCodes(course_urls) ==
    [key \in DOMAIN course_urls |-> Split({"/"}, course_urls[key][1])[6]]

-----------------------------------------------------------------------------
(* coursescraper.py: the script *)

\* FiveCollegeScraper.py is another program: none of its names exists in
\* coursescraper.py
PipelineNotRun ==
    /\ INST = <<>>
    /\ DEPTS = {}
    /\ PREREQS = <<>>
    /\ COURSE_GRAPH = NoGraph
    /\ data = NoData
    /\ files = {}
    /\ dept = <<>>
    /\ counter = 0
    /\ seed = 0
    /\ draws = 0
    /\ pc = "not run"
    /\ err = "none"

\* the state before  courseDetails = {}: courseURLs and uniqueRecentURLs are
\* built, all urls being of one semester
ScraperInit ==
    /\ PipelineNotRun
    /\ courseURLs \in Catalogs
    /\ uniqueRecentURLs \in Orderings(UniqueCourseURLs(courseURLs))
    /\ pages \in [UniqueCourseURLs(courseURLs) -> PageList]
    /\ courseDetails = <<>>
    /\ depts_global = {}
    /\ prereqs = <<>>
    /\ fetched = 0
    /\ scanned = {}
    /\ cell = "courseDetails"

\* one pass of  for url in uniqueRecentURLs
FetchCourseDetails ==
    /\ cell = "courseDetails"
    /\ fetched < Len(uniqueRecentURLs)
    /\ LET url == uniqueRecentURLs[fetched + 1]
           detail == CourseDetail(courseURLs, url, pages[url])
       IN /\ depts_global' = detail.depts
          /\ courseDetails' = (CourseCode(url) :> detail) @@ courseDetails
    /\ fetched' = fetched + 1
    /\ cell' = IF fetched' = Len(uniqueRecentURLs) THEN "prereqs" ELSE cell
    /\ UNCHANGED <<courseURLs, uniqueRecentURLs, pages, prereqs, scanned>>
    /\ UNCHANGED pipelineVars

\* one pass of  for k in courseDetails.keys(), in the order of the dict
ScanRequisiteLine ==
    /\ cell = "prereqs"
    /\ \E k \in DOMAIN courseDetails \ scanned :
          /\ prereqs' = IF Len(courseDetails[k].rLine) > 0
                        THEN (k :> ReqdCourses(courseDetails[k], depts_global))
                                 @@ prereqs
                        ELSE prereqs
          /\ scanned' = scanned \cup {k}
          /\ cell' = IF scanned' = DOMAIN courseDetails THEN "finished" ELSE cell
    /\ UNCHANGED <<courseURLs, uniqueRecentURLs, pages, courseDetails, depts_global,
                   fetched>>
    /\ UNCHANGED pipelineVars

ScraperNext ==
    \/ FetchCourseDetails
    \/ ScanRequisiteLine

ScraperSpec ==
    ScraperInit /\ [][ScraperNext]_vars

-----------------------------------------------------------------------------
(* Definitions the properties share *)

\* get_prereqs has returned normally
PrereqsKnown ==
    pc \in {"test_prereqs", "make_course_graph", "export", "done"}

\* get_prereqs has just returned: INST and PREREQS are assigned nowhere
\* after this point of the script
PrereqsReturned ==
    pc = "test_prereqs"

\* make_course_graph has returned
GraphBuilt ==
    pc \in {"export", "done"}

\* make_course_graph has just returned: COURSE_GRAPH is assigned nowhere
\* after this point of the script
GraphReturned ==
    pc = "export" /\ dept = <<>>

\* a make_json has returned
Exported ==
    dept # <<>>

\* the required codes of the edges whose requiring course is k, in list order
RequiredBy(k) ==
    LET own == SelectSeq(PREREQS, LAMBDA e : e[2] = k)
    IN [j \in DOMAIN own |-> own[j][1]]

\* the node of the document that an index string denotes
NodeAt(indexString) ==
    data.nodes[CHOOSE j \in DOMAIN data.nodes : StrNat(j - 1) = indexString]

-----------------------------------------------------------------------------
(* C1: in every document produced by make_json, the edge at 0-based        *)
(* position i of the edge list has id (node_count - 1) + 2*i, node_count   *)
(* being the number of nodes of the document.                              *)
C1_EdgeIdIsNodeCountOffset ==
    \A i \in DOMAIN data.edges :
        data.edges[i].id = StrNat((Len(data.nodes) - 1) + 2 * (i - 1))

(* C2: in every document produced by make_json, the id of the node at      *)
(* 0-based index j is j written as an integer string, and the source and   *)
(* the target of every edge are each the id of exactly one node.           *)
C2_NodeIdsAreIndexStrings ==
    /\ \A j \in DOMAIN data.nodes : data.nodes[j].id = StrNat(j - 1)
    /\ \A i \in DOMAIN data.edges :
          /\ Cardinality({j \in DOMAIN data.nodes :
                             data.nodes[j].id = data.edges[i].source}) = 1
          /\ Cardinality({j \in DOMAIN data.nodes :
                             data.nodes[j].id = data.edges[i].target}) = 1

(* C3: the graph built by make_course_graph has exactly one node per       *)
(* unique course code: its names are the known codes and the edge          *)
(* endpoints, and no name is carried by two nodes.                         *)
C3_OneNodePerUniqueCode ==
    GraphBuilt =>
        /\ Range(COURSE_GRAPH.names) =
              Range(Keys(INST)) \cup {PREREQS[e][1] : e \in DOMAIN PREREQS}
                                \cup {PREREQS[e][2] : e \in DOMAIN PREREQS}
        /\ \A i, j \in DOMAIN COURSE_GRAPH.names :
              COURSE_GRAPH.names[i] = COURSE_GRAPH.names[j] => i = j

-----------------------------------------------------------------------------
(* The department cursor, stated position by position *)

\* the department in force at position p of words: the last token at or
\* before p that, uppercased, is a known department code; else the own one
CursorAt(words, p, own, depts) ==
    LET Q == {q \in 1..p : In(Upper(words[q]), depts)}
    IN IF Q = {} THEN own
       ELSE words[CHOOSE q \in Q : \A r \in Q : r <= q]

\* the code emitted for the number at position p of the text of course k
CodeAt(words, p, k, depts) ==
    Upper(CursorAt(words, p, DeptPrefix(k), depts)) \o <<"-">> \o words[p]

\* the positions of words that satisfy Test, ascending
PositionsWhere(words, Test(_)) ==
    SelectSeq([p \in DOMAIN words |-> p], LAMBDA p : Test(words[p]))

\* the number parts (uppercased, starting with a digit) of the store's keys
KnownNumbers ==
    {Upper(Split({"-"}, INST[i].code)[2]) :
        i \in {j \in DOMAIN INST :
                  LET fields == Split({"-"}, INST[j].code)
                  IN /\ Len(fields) >= 2
                     /\ Len(fields[2]) >= 1
                     /\ IsNumericChar(fields[2][1])}}

\* word is not empty and consists of digits only
IsNumericWord(word) ==
    Len(word) > 0 /\ \A i \in DOMAIN word : IsNumericChar(word[i])

Code_ECON_201 ==
    <<"E", "C", "O", "N", "-", "2", "0", "1">>

Code_ECON_999 ==
    <<"E", "C", "O", "N", "-", "9", "9", "9">>

C5_EveryNumericTokenEmits ==
    PrereqsReturned =>
        \A i \in DOMAIN INST :
            LET k == INST[i].code
                words == WordsOf(INST[i].description)
                depts == DeptsOf(INST)
            IN Len(INST[i].description) > 0 =>
                  \A p \in DOMAIN words :
                      IsNumericWord(words[p]) =>
                          In(<<CodeAt(words, p, k, depts), k>>, PREREQS)

(* C5, amended: a token emits the edge (cursor-number, requiring course)   *)
(* if and only if it is the number part of some key of the store, whether  *)
(* or not cursor-number itself is a key; every required code, also one     *)
(* without a CourseRecord, is then a node of the graph.                    *)
C5_KnownNumberTokensEmit ==
    /\ PrereqsReturned =>
          \A i \in DOMAIN INST :
              LET k == INST[i].code
                  words == WordsOf(INST[i].description)
                  depts == DeptsOf(INST)
                  known == KnownNumbers
                  at == PositionsWhere(words, LAMBDA w : w \in known)
              IN IF Len(INST[i].description) > 0
                 THEN /\ Len(RequiredBy(k)) = Len(at)
                      /\ \A j \in DOMAIN at :
                            In(<<CodeAt(words, at[j], k, depts), k>>, PREREQS)
                 ELSE RequiredBy(k) = <<>>
    /\ GraphBuilt =>
          \A e \in DOMAIN PREREQS : In(PREREQS[e][1], COURSE_GRAPH.names)

\* ECON-301 names ECON 999, 999 is the number of another course of the
\* store, ECON-999 is no key, and the graph has the node ECON-999
C5_Witness ==
    /\ GraphBuilt
    /\ In(<<Code_ECON_999, Code_ECON_301>>, PREREQS)
    /\ ~In(Code_ECON_999, Keys(INST))
    /\ In(Code_ECON_999, COURSE_GRAPH.names)

(* C6: for every edge (required, requiring) returned by get_prereqs,       *)
(* requiring is a key of the CourseRecord store.                           *)
C6_RequiringIsKey ==
    \A e \in DOMAIN PREREQS : In(PREREQS[e][2], Keys(INST))

\* get_prereqs returned an edge whose required code is not a key, while its
\* requiring code is
C6_Witness ==
    /\ PrereqsKnown
    /\ \E e \in DOMAIN PREREQS :
          /\ ~In(PREREQS[e][1], Keys(INST))
          /\ In(PREREQS[e][2], Keys(INST))

-----------------------------------------------------------------------------
(* Subgraph membership, stated vertex by vertex *)

\* the vertices of graph whose department prefix is d
OwnVertices(d, graph) ==
    {v \in Vertices(graph) : DeptPrefix(NameOf(graph, v)) = d}

\* graph has an edge, in either direction, between u and v
Adjacent(graph, u, v) ==
    \E e \in DOMAIN graph.edges :
        graph.edges[e] = <<u, v>> \/ graph.edges[e] = <<v, u>>

\* the departments to extract: those of the graph's nodes, and one that has
\* no node at all
DepartmentsToExtract ==
    {DeptPrefix(NameOf(COURSE_GRAPH, v)) : v \in Vertices(COURSE_GRAPH)}
        \cup {<<"P", "H", "I", "L">>}

HasRequisiteLanguage(desc) ==
    \E s \in Range(Split(SentenceSeparators, desc)) :
        \/ Contains(Lower(s), <<"r", "e", "q", "u", "i", "s", "i", "t", "e">>)
        \/ Contains(Lower(s), <<"c", "o", "n", "s", "e", "n", "t", " ", "o", "f", " ",
                                "p", "r", "o", "f", "e", "s", "s", "o", "r">>)
        \/ Contains(Lower(s), <<"c", "o", "n", "s", "e", "n", "t", " ", "o", "f", " ",
                                "i", "n", "s", "t", "r", "u", "c", "t", "o", "r">>)

\* some key of the store has no department/number separator
HasKeyWithoutSeparator ==
    \E i \in DOMAIN INST : ~In("-", INST[i].code)

(* C8: get_prereqs raises on no description text, and a course whose       *)
(* description holds no requisite language contributes no edge with that   *)
(* course as the requiring one.                                            *)
C8_NoRequisiteLanguageNoEdge ==
    /\ pc = "raised" => HasKeyWithoutSeparator
    /\ PrereqsKnown =>
          \A i \in DOMAIN INST :
              ~HasRequisiteLanguage(INST[i].description) =>
                  RequiredBy(INST[i].code) = <<>>

(* C9: when the store holds a code without the separator, the pipeline     *)
(* stops in get_prereqs with an error, and the code never reaches the      *)
(* edge list, the graph or a document.                                     *)
C9_MissingSeparatorRaises ==
    HasKeyWithoutSeparator =>
        /\ pc \in {"get_prereqs", "raised"}
        /\ pc = "raised" => err = "IndexError"
        /\ pc = "get_prereqs" => err = "none"
        /\ PREREQS = <<>>
        /\ COURSE_GRAPH = NoGraph
        /\ data = NoData

\* get_prereqs ran on a store with such a code and raised
C9_Witness ==
    /\ HasKeyWithoutSeparator
    /\ pc = "raised"
    /\ err = "IndexError"

(* C10: within one document, two nodes with the same department prefix     *)
(* have the same color, and the color of every edge is the color of its    *)
(* target node's department.                                               *)
C10_ColorsByDepartment ==
    /\ \A a, b \in DOMAIN data.nodes :
          DeptPrefix(data.nodes[a].label[2]) = DeptPrefix(data.nodes[b].label[2])
              => data.nodes[a].color = data.nodes[b].color
    /\ \A e \in DOMAIN data.edges :
          data.edges[e].color = NodeAt(data.edges[e].target).color

\* a document with two nodes of one department and with an edge whose source
\* and target are colored differently
C10_Witness ==
    /\ Exported
    /\ \E a, b \in DOMAIN data.nodes :
          /\ a # b
          /\ DeptPrefix(data.nodes[a].label[2]) = DeptPrefix(data.nodes[b].label[2])
    /\ \E e \in DOMAIN data.edges :
          /\ NodeAt(data.edges[e].source).color # NodeAt(data.edges[e].target).color
          /\ data.edges[e].color = NodeAt(data.edges[e].target).color

-----------------------------------------------------------------------------
(* Definitions the properties about documents share *)

\* the code of a node of a document
CodeOf(node) ==
    node.label[2]

\* the number of randint calls made before the last make_json began
DrawsBefore ==
    draws - 3 * Len(data.nodes)

(* C11: a department has one color for the whole run: in all the           *)
(* documents written during one run, the nodes of one department carry     *)
(* the same color.                                                         *)
C11_DepartmentColorStable ==
    \A f, g \in files :
        \A a \in DOMAIN f[2].nodes, b \in DOMAIN g[2].nodes :
            DeptPrefix(CodeOf(f[2].nodes[a])) = DeptPrefix(CodeOf(g[2].nodes[b]))
                => f[2].nodes[a].color = g[2].nodes[b].color

(* C12: a subgraph node whose code is no key of the store is written with  *)
(* the description 'not offered in the last 4 semesters', an empty         *)
(* 'Course Site' and an empty 'Requisite', at the layout position of its   *)
(* own index and in the color of its department, as a known course is.     *)
C12_PhantomNodeRecord ==
    Exported =>
        LET subgraph == make_subgraph(dept, COURSE_GRAPH)
            layout == get_sugiyama_layout(subgraph)
        IN \A j \in DOMAIN data.nodes :
              LET node == data.nodes[j]
              IN ~In(CodeOf(node), Keys(INST)) =>
                    /\ node.attributes.Description = NotOffered
                    /\ node.attributes.CourseSite = <<>>
                    /\ node.attributes.Requisite = <<>>
                    /\ CodeOf(node) = subgraph.names[j]
                    /\ node.x = layout[j][1]
                    /\ node.y = layout[j][2]
                    /\ node.color =
                          RgbString(DepartmentColor(subgraph.names,
                                                    DeptPrefix(CodeOf(node)),
                                                    seed, DrawsBefore))
                    /\ \A i \in DOMAIN data.nodes :
                          DeptPrefix(CodeOf(data.nodes[i])) = DeptPrefix(CodeOf(node))
                              => data.nodes[i].color = node.color

\* a document holds a node without CourseRecord next to a known course of
\* the same department, in a run whose colors differ between departments
C12_Witness ==
    /\ Exported
    /\ seed = 1
    /\ \E j, i \in DOMAIN data.nodes :
          /\ ~In(CodeOf(data.nodes[j]), Keys(INST))
          /\ In(CodeOf(data.nodes[i]), Keys(INST))
          /\ DeptPrefix(CodeOf(data.nodes[i])) = DeptPrefix(CodeOf(data.nodes[j]))
          /\ data.nodes[j].attributes.Description = NotOffered
          /\ data.nodes[j].x = j - 1
    /\ \E i, j \in DOMAIN data.nodes : data.nodes[i].color # data.nodes[j].color

\* how often pair occurs in list
Occurrences(list, pair) ==
    Cardinality({e \in DOMAIN list : list[e] = pair})

\* the number of edges of graph from a node named required to one named
\* requiring
EdgesBetween(graph, required, requiring) ==
    Cardinality({e \in DOMAIN graph.edges :
                    /\ NameOf(graph, graph.edges[e][1]) = required
                    /\ NameOf(graph, graph.edges[e][2]) = requiring})

(* C13: make_course_graph adds the edge list verbatim: for every pair      *)
(* (required, requiring) the graph has as many edges from the node named   *)
(* required to the node named requiring as the list returned by            *)
(* get_prereqs has occurrences of the pair; repeated pairs are kept.       *)
C13_EdgesVerbatim ==
    GraphReturned =>
        /\ Len(COURSE_GRAPH.edges) = Len(PREREQS)
        /\ \A pair \in Range(PREREQS) :
              EdgesBetween(COURSE_GRAPH, pair[1], pair[2]) = Occurrences(PREREQS, pair)

\* get_prereqs returned one pair twice and the graph has both edges
C13_Witness ==
    /\ GraphBuilt
    /\ \E pair \in Range(PREREQS) :
          /\ Occurrences(PREREQS, pair) = 2
          /\ EdgesBetween(COURSE_GRAPH, pair[1], pair[2]) = 2

(* C16: for every node of a document, known or not, the 'Department Code'  *)
(* attribute is the department prefix of the node's code, the part before  *)
(* '-', whatever the length of the department code.                        *)
C16_DepartmentCodeIsPrefix ==
    \A j \in DOMAIN data.nodes :
        data.nodes[j].attributes.DepartmentCode = DeptPrefix(CodeOf(data.nodes[j]))

\* the subgraph a document was written from: the codes of its nodes and the
\* endpoints of its edges, in order
WrittenSubgraph(document) ==
    [names |-> [j \in DOMAIN document.nodes |-> CodeOf(document.nodes[j])],
     edges |-> [e \in DOMAIN document.edges |->
                   <<document.edges[e].source, document.edges[e].target>>]]

\* the same two fields of a subgraph, the vertex ids written as strings
SubgraphAsWritten(subgraph) ==
    [names |-> subgraph.names,
     edges |-> [e \in DOMAIN subgraph.edges |->
                   <<StrNat(subgraph.edges[e][1]), StrNat(subgraph.edges[e][2])>>]]

\* every document written so far shows the subgraph that its department has
\* in a graph built afresh from the store
DocumentsMatchFreshGraph ==
    files # {} =>
        LET fresh == make_course_graph(INST, get_prereqs(INST))
        IN \A f \in files :
              WrittenSubgraph(f[2]) = SubgraphAsWritten(make_subgraph(f[1], fresh))

\* a step of test_prereqs or of an export (make_subgraph, make_json) leaves
\* the store, the edge list and the full graph as they are
InputsKeptByExports ==
    (pc = "test_prereqs" \/ pc = "export") =>
        (INST' = INST /\ PREREQS' = PREREQS /\ COURSE_GRAPH' = COURSE_GRAPH)

(* C14: test_prereqs, make_subgraph and make_json leave the store, the     *)
(* edge list and the full graph unchanged, so that whatever the order of   *)
(* the exports, the subgraph a department is exported with has the node    *)
(* set and edge set it has when it is extracted first.                     *)
C14_ExportsLeaveInputsUnchanged ==
    /\ [][InputsKeptByExports]_vars
    /\ []DocumentsMatchFreshGraph

\* two departments were exported one after the other, and the second
\* document holds an edge and a course of another department
C14_Witness ==
    /\ pc = "done"
    /\ Cardinality(files) = 2
    /\ data.edges # <<>>
    /\ \E j \in DOMAIN data.nodes : DeptPrefix(CodeOf(data.nodes[j])) # dept

RECURSIVE CoursesByCursor(_, _, _)
\* the courses a requisite line names when the cursor starts at own, moves
\* at every word of known, and every three-digit word is emitted with it
CoursesByCursor(words, own, known) ==
    IF words = <<>> THEN <<>>
    ELSE LET cursor == IF Head(words) \in known THEN Head(words) ELSE own
         IN (IF IsCourseNumber(Head(words))
             THEN <<cursor \o <<"-">> \o Head(words)>>
             ELSE <<>>) \o CoursesByCursor(Tail(words), cursor, known)

(* C15: in coursescraper.py the cursor starts as the course's own          *)
(* department code, a word equal to a known department code sets the       *)
(* cursor, and every three-digit numeric word is emitted with the cursor:  *)
(* 'Requisite: MATH 211 and ECON 301.' of an ECON course gives             *)
(* [MATH-211, ECON-301].                                                   *)
C15_KnownDeptCodeSetsCursor ==
    \A k \in DOMAIN prereqs :
        prereqs[k] = CoursesByCursor(RLineWords(courseDetails[k].rLine[1]),
                                     UrlDept(courseDetails[k].url),
                                     Range(DeptCodes(courseURLs)))

====
